---- MODULE Spec2Model ----
(***************************************************************************)
(* A model of the noon animation engine: the scene object (clock, creation *)
(* counter, per-frame entry points), the "update" system stage with its    *)
(* label ordering, and the path algorithms (combine_vectors_with_ordering, *)
(* Path::interp, GetPartial::upto).                                        *)
(*                                                                         *)
(* Numbers.  f32 values are modelled exactly, as integers over a fixed     *)
(* denominator or as fractions <<numerator, denominator>>:                 *)
(*   - scene times are counted in half seconds (event_time starts at 0.5); *)
(*   - a Depth is the fraction <<creation_count, 10>>;                     *)
(*   - a progress value is counted in units of 1/10000 (One is 1.0);       *)
(*   - a ratio given to upto is counted in units of 1/RatioDen, and path   *)
(*     coordinates and lengths in units of 1/RatioDen of a grid step, so   *)
(*     that a cut at such a ratio falls on a representable point.          *)
(***************************************************************************)
EXTENDS Integers, Sequences, FiniteSets

VARIABLES
    event_time,      \* Scene.event_time, in half seconds
    clock_time,      \* Scene.clock_time, in half seconds
    creation_count,  \* Scene.creation_count
    time_seconds,    \* the Time resource of the world (Time.seconds), in half seconds
    depths,          \* the Depth values returned by increment_counter, in call order
    last_op,         \* the scene operation performed last: its name, its argument and
                     \* the clock_time it found
    entities,        \* the shape entities of the world, in creation order: kind and Depth
    drawn,           \* the entities the last draw pass drew, in the order it drew them
    done,            \* the systems of the update stage that have run in the current frame
    call             \* the call of a path function being evaluated: its arguments and result

vars == <<event_time, clock_time, creation_count, time_seconds, depths, last_op, entities,
          drawn, done, call>>
sceneVars == <<event_time, clock_time, creation_count, time_seconds, depths, last_op, entities,
               drawn>>

(***************************************************************************)
(* Bounds of the model.                                                    *)
(***************************************************************************)
MaxCount == 4        \* increment_counter is called at most this often
MaxNow == 3          \* update(now) is called with now in 0..MaxNow half seconds
MaxEventTime == 6    \* event_time stays within -MaxEventTime..MaxEventTime
MaxWait == 2         \* wait_for(t) is called with t in -MaxWait..MaxWait half seconds
MaxVal == 4          \* the entries of a cumulative-length vector lie in 0..MaxVal
MaxVecLen == 3       \* a cumulative-length vector has 1..MaxVecLen entries
RatioDen == 4        \* a ratio is a multiple of 1/RatioDen; a grid step is RatioDen units
MaxSegs == 2         \* a path given to upto has at most MaxSegs segments in all
MaxInterpSegs == 1   \* a path given to interp has one sub-path of at most this many segments
MaxWalkSegs == 2     \* a path that interp resamples has one sub-path of at most this many
                     \* segments

(***************************************************************************)
(* Fractions <<n, d>> with d > 0.                                          *)
(***************************************************************************)
FracLess(a, b) == a[1] * b[2] < b[1] * a[2]
FracEq(a, b) == a[1] * b[2] = b[1] * a[2]
FracSub(b, a) == <<b[1] * a[2] - a[1] * b[2], a[2] * b[2]>>
FracTimes(a, k) == <<a[1] * k, a[2]>>

(***************************************************************************)
(* The update stage (Scene::new).  Every entry is one with_system call, in *)
(* registration order, with the label it carries and the labels it is      *)
(* ordered before and after.                                               *)
(***************************************************************************)
System(name, labels, before, after) ==
    [sys |-> name, labels |-> labels, before |-> before, after |-> after]

UpdateStage_unordered_snapshot ==
    <<System("update_previous<Size>", {}, {}, {}),
      System("init_from_target<Position>", {}, {}, {}),
      System("init_from_target<FillColor>", {}, {}, {}),
      System("init_from_target<StrokeColor>", {}, {}, {}),
      System("init_from_target<StrokeWeight>", {}, {}, {}),
      System("init_from_target<Size>", {"Regular"}, {}, {}),
      System("init_from_target<Angle>", {}, {}, {}),
      System("init_from_target<Opacity>", {}, {}, {}),
      System("init_from_target<PathCompletion>", {}, {}, {}),
      System("init_from_target<FontSize>", {}, {}, {}),
      System("animate_position", {}, {}, {}),
      System("animate<FillColor>", {}, {}, {}),
      System("animate<StrokeColor>", {}, {}, {}),
      System("animate<StrokeWeight>", {}, {}, {}),
      System("animate<Size>", {"Regular"}, {}, {}),
      System("animate<Angle>", {}, {}, {}),
      System("animate<Opacity>", {}, {}, {}),
      System("animate<PathCompletion>", {}, {}, {}),
      System("animate<FontSize>", {}, {}, {}),
      System("init_from_target<Path>", {}, {}, {"Regular"}),
      System("animate<Path>", {}, {}, {"Regular"}),
      System("update_path_from_size_change", {}, {}, {"Regular"}),
      System("print", {}, {}, {})>>

UpdateStage ==
    <<System("update_previous<Size>", {}, {"Regular"}, {}),
      System("init_from_target<Position>", {}, {}, {}),
      System("init_from_target<FillColor>", {}, {}, {}),
      System("init_from_target<StrokeColor>", {}, {}, {}),
      System("init_from_target<StrokeWeight>", {}, {}, {}),
      System("init_from_target<Size>", {"Regular"}, {}, {}),
      System("init_from_target<Angle>", {}, {}, {}),
      System("init_from_target<Opacity>", {}, {}, {}),
      System("init_from_target<PathCompletion>", {}, {}, {}),
      System("init_from_target<FontSize>", {}, {}, {}),
      System("animate_position", {}, {}, {}),
      System("animate<FillColor>", {}, {}, {}),
      System("animate<StrokeColor>", {}, {}, {}),
      System("animate<StrokeWeight>", {}, {}, {}),
      System("animate<Size>", {"Regular"}, {}, {}),
      System("animate<Angle>", {}, {}, {}),
      System("animate<Opacity>", {}, {}, {}),
      System("animate<PathCompletion>", {}, {}, {}),
      System("animate<FontSize>", {}, {}, {}),
      System("init_from_target<Path>", {}, {}, {"Regular"}),
      System("animate<Path>", {}, {}, {"Regular"}),
      System("update_path_from_size_change", {}, {}, {"Regular"}),
      System("print", {}, {}, {})>>

Systems == {UpdateStage[i].sys : i \in 1..Len(UpdateStage)}
Entry(s) == CHOOSE i \in 1..Len(UpdateStage) : UpdateStage[i].sys = s

\* The systems that a parallel stage finishes before it starts s: those carrying a
\* label s is ordered after, and those ordered before a label s carries.
Dependencies(s) ==
    {d \in Systems \ {s} :
        \/ UpdateStage[Entry(d)].labels \cap UpdateStage[Entry(s)].after # {}
        \/ UpdateStage[Entry(s)].labels \cap UpdateStage[Entry(d)].before # {}}
DependenciesOf == [s \in Systems |-> Dependencies(s)]

\* The systems the stage may start next.
Ready == {s \in Systems \ done : DependenciesOf[s] \subseteq done}

\* The stage runs one ready system to completion.
RunSystem ==
    /\ \E s \in Ready : done' = done \cup {s}
    /\ UNCHANGED <<sceneVars, call>>

\* Every system has run: the frame is over, and the next run of the schedule
\* starts with no system run.
FrameEnd ==
    /\ done = Systems
    /\ done' = {}
    /\ UNCHANGED <<sceneVars, call>>

(***************************************************************************)
(* The scene (Scene::new and the scene's operations).                      *)
(***************************************************************************)
Depth_truncating(count) == <<count \div 10, 1>>

\* Depth(count as f32 / 10.0)
Depth(count) == <<count, 10>>

NoCall == [fn |-> "none"]

\* The record of a scene operation: its name, its argument (0 when it has none)
\* and the value clock_time had when it was called.
Op(name, arg) == [op |-> name, arg |-> arg, clock_before |-> clock_time]

SceneInit ==
    /\ event_time = 1
    /\ clock_time = 0
    /\ creation_count = 0
    /\ time_seconds = 0
    /\ depths = <<>>
    /\ last_op = [op |-> "new", arg |-> 0, clock_before |-> 0]
    /\ entities = <<>>
    /\ drawn = <<>>

Init ==
    /\ SceneInit
    /\ done = {}
    /\ call = NoCall

increment_counter ==
    /\ creation_count < MaxCount
    /\ creation_count' = creation_count + 1
    /\ depths' = Append(depths, Depth(creation_count'))
    /\ last_op' = Op("increment_counter", 0)
    /\ UNCHANGED <<event_time, clock_time, time_seconds, entities, drawn, done, call>>

update_monotonic(now) ==
    /\ time_seconds' = now
    /\ done' = Systems
    /\ clock_time' = IF now > clock_time THEN now ELSE clock_time
    /\ last_op' = Op("update", now)
    /\ UNCHANGED <<event_time, creation_count, depths, entities, drawn, call>>

\* update(now): the Time resource is set, the update schedule runs every system
\* of the stage, and then the clock is set.
update(now) ==
    /\ time_seconds' = now
    /\ done' = Systems
    /\ clock_time' = now
    /\ last_op' = Op("update", now)
    /\ UNCHANGED <<event_time, creation_count, depths, entities, drawn, call>>

\* The "draw" stage (Scene::new): a single-threaded stage, whose systems run one
\* after the other in this order.
DrawStage == <<"draw_circle", "draw_rectangle", "draw_line", "draw_text">>

\* The kind of entity a draw system draws.
DrawnKind(system) ==
    CASE system = "draw_circle" -> "circle"
      [] system = "draw_rectangle" -> "rectangle"
      [] system = "draw_line" -> "line"
      [] system = "draw_text" -> "text"

\* A draw system draws the entities of its kind, in the order they were created.
DrawSystem(system) ==
    SelectSeq([i \in 1..Len(entities) |-> i],
              LAMBDA i : entities[i].kind = DrawnKind(system))

\* One run of the draw schedule: what its systems draw, one system after the other.
RECURSIVE RunDrawStage(_)
RunDrawStage(k) ==
    IF k > Len(DrawStage) THEN <<>> ELSE DrawSystem(DrawStage[k]) \o RunDrawStage(k + 1)

\* draw replaces the world's Draw handle and runs the draw schedule.
draw ==
    /\ drawn' = RunDrawStage(1)
    /\ last_op' = Op("draw", 0)
    /\ UNCHANGED <<event_time, clock_time, creation_count, time_seconds, depths, entities,
                   done, call>>

\* scene.circle() / rectangle() / line() / text() followed by make(): the builder
\* takes a depth from increment_counter and spawns an entity of its kind with it.
make(kind) ==
    /\ creation_count < MaxCount
    /\ creation_count' = creation_count + 1
    /\ depths' = Append(depths, Depth(creation_count'))
    /\ entities' = Append(entities, [kind |-> kind, depth |-> Depth(creation_count')])
    /\ last_op' = Op("make", 0)
    /\ UNCHANGED <<event_time, clock_time, time_seconds, drawn, done, call>>

wait ==
    /\ event_time + 2 <= MaxEventTime
    /\ event_time' = event_time + 2
    /\ last_op' = Op("wait", 0)
    /\ UNCHANGED <<clock_time, creation_count, time_seconds, depths, entities, drawn, done, call>>

wait_for(time) ==
    /\ event_time + time \in -MaxEventTime..MaxEventTime
    /\ event_time' = event_time + time
    /\ last_op' = Op("wait_for", time)
    /\ UNCHANGED <<clock_time, creation_count, time_seconds, depths, entities, drawn, done, call>>

\* AnimBuilder::new(scene, animations): the builder only holds the scene and the
\* animations it was given.
AnimBuilder_new ==
    UNCHANGED <<event_time, clock_time, creation_count, time_seconds, depths, entities, drawn,
                done, call>>

play ==
    /\ AnimBuilder_new
    /\ last_op' = Op("play", 0)

Next ==
    \/ increment_counter
    \/ \E now \in 0..MaxNow : update(now)
    \/ draw
    \/ wait
    \/ \E time \in -MaxWait..MaxWait : wait_for(time)
    \/ play

Spec == Init /\ [][Next]_vars

NextDraw ==
    \/ \E kind \in {"circle", "rectangle", "line", "text"} : make(kind)
    \/ draw

SpecDraw == Init /\ [][NextDraw]_vars

NextFrame ==
    \/ RunSystem
    \/ FrameEnd

SpecFrame == Init /\ [][NextFrame]_vars

(***************************************************************************)
(* combine_vectors_with_ordering (path.rs).  A normalized value val / s is *)
(* the fraction <<val, s>>.                                                *)
(***************************************************************************)
\* val / s
Normalized(val, s) == <<val, s>>

ComesFirst_raw(val2, s2, val1, s1) == val2 < val1
ComesFirst_or_equal(val2, s2, val1, s1) ==
    ~FracLess(Normalized(val1, s1), Normalized(val2, s2))

\* **val2 / s2 < val1 / s1
ComesFirst(val2, s2, val1, s1) == FracLess(Normalized(val2, s2), Normalized(val1, s1))

\* The loop over v1 with the peekable iterator over v2: i is the entry of v1 the for
\* loop is at, j the entry of v2 the iterator peeks at.
RECURSIVE CombineLoop(_, _, _, _, _)
CombineLoop(v1, v2, i, j, combined) ==
    LET s1 == v1[Len(v1)]
        s2 == v2[Len(v2)]
    IN  IF i > Len(v1) THEN combined
        ELSE IF j <= Len(v2) /\ ComesFirst(v2[j], s2, v1[i], s1)
             THEN CombineLoop(v1, v2, i, j + 1, Append(combined, Normalized(v2[j], s2)))
             ELSE CombineLoop(v1, v2, i + 1, j, Append(combined, Normalized(v1[i], s1)))

combine_vectors_with_ordering(v1, v2) == CombineLoop(v1, v2, 1, 1, <<>>)

\* The vectors get_line_lengths produces: cumulative sums of non-negative segment
\* lengths, so non-decreasing; with a positive total.
IsNonDecreasing(v) == \A i \in 2..Len(v) : v[i - 1] <= v[i]
LengthVectors ==
    {v \in UNION {[1..n -> 0..MaxVal] : n \in 1..MaxVecLen} :
        IsNonDecreasing(v) /\ v[Len(v)] > 0}

CombineInit ==
    /\ SceneInit
    /\ done = {}
    /\ \E v1 \in LengthVectors, v2 \in LengthVectors :
           call = [fn |-> "combine_vectors_with_ordering", state |-> "called",
                   v1 |-> v1, v2 |-> v2, out |-> <<>>]

CombineReturn ==
    /\ call.fn = "combine_vectors_with_ordering"
    /\ call.state = "called"
    /\ call' = [call EXCEPT !.state = "returned",
                            !.out = combine_vectors_with_ordering(call.v1, call.v2)]
    /\ UNCHANGED <<sceneVars, done>>

NextCombine == CombineReturn

SpecCombine == CombineInit /\ [][NextCombine]_vars

(***************************************************************************)
(* Paths (lyon::Path behind Path).  A path is a sequence of sub-paths; a   *)
(* sub-path begins at a point, has line and quadratic segments, and ends   *)
(* closed or open.  The points lie on the corners of a grid square and the *)
(* segments and closing edges run along its sides, so every length is an   *)
(* integer; a quadratic segment has its control point on its start point,  *)
(* so it traces the straight segment to its end point.                     *)
(***************************************************************************)
Abs(x) == IF x < 0 THEN -x ELSE x

\* (to - from).length(), for two points on a horizontal or vertical line
Dist(from, to) == Abs(to[1] - from[1]) + Abs(to[2] - from[2])

\* from.lerp(to, num / den)
Lerp(from, to, num, den) ==
    <<from[1] + ((to[1] - from[1]) * num) \div den,
      from[2] + ((to[2] - from[2]) * num) \div den>>

GridPoints == {0, RatioDen} \X {0, RatioDen}
AxisAligned(p, q) == p[1] = q[1] \/ p[2] = q[2]

Segment(kind, ctrl, to) == [kind |-> kind, ctrl |-> ctrl, to |-> to]
SubPath(at, segs, close) == [at |-> at, segs |-> segs, close |-> close]

LastPoint(sub) == IF sub.segs = <<>> THEN sub.at ELSE sub.segs[Len(sub.segs)].to

\* The events path.iter().flattened(tolerance) yields for one sub-path: Begin, one
\* Line per segment (a straight quadratic flattens to the line to its end point),
\* End.
SubPathEvents(sub) ==
    <<[ev |-> "Begin", from |-> sub.at, to |-> sub.at, close |-> FALSE]>>
    \o [i \in 1..Len(sub.segs) |->
            [ev |-> "Line",
             from |-> IF i = 1 THEN sub.at ELSE sub.segs[i - 1].to,
             to |-> sub.segs[i].to,
             close |-> FALSE]]
    \o <<[ev |-> "End", from |-> LastPoint(sub), to |-> sub.at, close |-> sub.close]>>

RECURSIVE Flattened(_)
Flattened(path) ==
    IF path = <<>> THEN <<>> ELSE SubPathEvents(Head(path)) \o Flattened(Tail(path))

RECURSIVE SumLengths(_)
SumLengths(events) ==
    IF events = <<>> THEN 0
    ELSE LET e == Head(events)
         IN  (IF e.ev = "Line" \/ (e.ev = "End" /\ e.close) THEN Dist(e.from, e.to) ELSE 0)
             + SumLengths(Tail(events))

\* lyon's approximate_length: the lengths of the lines and curves, and of the closing
\* edge of every closed sub-path.  A straight quadratic is as long as its chord.
approximate_length(path) == SumLengths(Flattened(path))

(***************************************************************************)
(* The SVG path builder (Path::svg_builder) as the path functions use it.  *)
(***************************************************************************)
svg_builder ==
    [path |-> <<>>, need_moveto |-> TRUE, is_empty |-> TRUE,
     first_position |-> <<0, 0>>, current_position |-> <<0, 0>>]

\* move_to ends the sub-path in progress, open, and begins one.
move_to(b, to) ==
    [path |-> Append(b.path, SubPath(to, <<>>, FALSE)),
     need_moveto |-> FALSE, is_empty |-> FALSE,
     first_position |-> to, current_position |-> to]

\* line_to with no sub-path in progress begins one: at the point itself on an empty
\* builder, at the first point of the sub-path closed before otherwise.
line_to(b, to) ==
    IF b.need_moveto /\ b.is_empty THEN move_to(b, to)
    ELSE LET c == IF b.need_moveto THEN move_to(b, b.first_position) ELSE b
             n == Len(c.path)
         IN  [c EXCEPT !.path[n].segs = Append(@, Segment("Line", to, to)),
                       !.current_position = to]

\* close ends the sub-path in progress, closed; without one it does nothing.
close(b) ==
    IF b.need_moveto THEN b
    ELSE [b EXCEPT !.path[Len(b.path)].close = TRUE,
                   !.need_moveto = TRUE,
                   !.current_position = b.first_position]

\* build ends the sub-path in progress, open.
build(b) == b.path

(***************************************************************************)
(* GetPartial::upto (path.rs).                                             *)
(***************************************************************************)
\* The loop over the flattened events: i is the event the loop is at.
RECURSIVE UptoLoop(_, _, _, _, _)
UptoLoop(events, i, builder, length, stop_at) ==
    IF i > Len(events) \/ length > stop_at THEN builder
    ELSE LET e == events[i]
         IN  CASE e.ev = "Begin" ->
                    UptoLoop(events, i + 1, move_to(builder, e.to), length, stop_at)
               [] e.ev = "Line" ->
                    LET seg_length == Dist(e.from, e.to)
                        new_length == length + seg_length
                    IN  IF new_length > stop_at
                        THEN line_to(builder,
                                     Lerp(e.from, e.to,
                                          seg_length - (new_length - stop_at), seg_length))
                        ELSE UptoLoop(events, i + 1, line_to(builder, e.to),
                                      new_length, stop_at)
               [] e.ev = "End" ->
                    UptoLoop(events, i + 1, close(builder), length, stop_at)

upto_truncate(path, ratio) ==
    LET r == IF ratio > 0 THEN ratio ELSE 0
        full_length == approximate_length(path)
        stop_at == (r * full_length) \div RatioDen
    IN  build(UptoLoop(Flattened(path), 1, svg_builder, 0, stop_at))

upto_only_above_one(path, ratio) ==
    IF ratio > RatioDen THEN path ELSE upto_truncate(path, ratio)

\* path.upto(ratio / RatioDen, tolerance)
upto(path, ratio) ==
    IF ratio >= RatioDen THEN path ELSE upto_truncate(path, ratio)

\* The sub-paths with n segments: a start point on the grid, every segment a line or
\* a straight quadratic along a side of the grid square, closed (if the closing edge
\* runs along a side) or open.
RECURSIVE SegmentLists(_, _)
SegmentLists(from, n) ==
    IF n = 0 THEN {<<>>}
    ELSE UNION {{<<seg>> \o rest : rest \in SegmentLists(seg.to, n - 1)} :
                seg \in {Segment("Line", to, to) : to \in {q \in GridPoints \ {from} : AxisAligned(from, q)}}
                        \cup {Segment("Quadratic", from, to) : to \in {q \in GridPoints \ {from} : AxisAligned(from, q)}}}

SubPathsFrom(at, n) ==
    UNION {{SubPath(at, segs, c) :
                c \in {b \in BOOLEAN : b => AxisAligned(LastPoint(SubPath(at, segs, b)), at)}} :
           segs \in SegmentLists(at, n)}
SubPathsOf(n) == UNION {SubPathsFrom(at, n) : at \in GridPoints}

\* The paths of sub-paths with at least one segment each and at most n segments in
\* all.
RECURSIVE PathsUpTo(_)
PathsUpTo(n) ==
    {<<>>} \cup
    UNION {{<<sub>> \o rest : sub \in SubPathsOf(k), rest \in PathsUpTo(n - k)} : k \in 1..n}

UptoPaths == PathsUpTo(MaxSegs) \ {<<>>}
Ratios == -1..(RatioDen + 1)

UptoInit ==
    /\ SceneInit
    /\ done = {}
    /\ \E path \in UptoPaths :
           call = [fn |-> "upto", state |-> "called", path |-> path, ratio |-> 0,
                   out |-> <<>>]

UptoReturn ==
    /\ call.fn = "upto"
    /\ call.state = "called"
    /\ \E ratio \in Ratios :
           call' = [call EXCEPT !.state = "returned", !.ratio = ratio,
                                !.out = upto(call.path, ratio)]
    /\ UNCHANGED <<sceneVars, done>>

NextUpto == UptoReturn

SpecUpto == UptoInit /\ [][NextUpto]_vars

(***************************************************************************)
(* Path::interp (path.rs).  A progress value is [nan, v]: not a number, or *)
(* v / 10000.                                                              *)
(***************************************************************************)
Zero == 0
One == 10000
LowThreshold == 10       \* 0.001
HighThreshold == 9990    \* 0.999

Progress(v) == [nan |-> FALSE, v |-> v]
NaN == [nan |-> TRUE, v |-> 0]

\* progress.min(1.0).max(0.0): f32::min and f32::max return the other operand when
\* one is not a number.
Clamped(progress) ==
    LET m == IF progress.nan \/ progress.v > One THEN One ELSE progress.v
    IN  IF m < Zero THEN Zero ELSE m

\* get_line_lengths: the running sum of the lengths of the Line events of the
\* flattened path.
RECURSIVE RunningLengths(_, _)
RunningLengths(events, d) ==
    IF events = <<>> THEN <<>>
    ELSE LET e == Head(events)
         IN  IF e.ev = "Line"
             THEN <<d + Dist(e.from, e.to)>>
                  \o RunningLengths(Tail(events), d + Dist(e.from, e.to))
             ELSE RunningLengths(Tail(events), d)
get_line_lengths(path) == RunningLengths(Flattened(path), 0)

\* ratios.iter().zip(ratios.iter().skip(1)).map(|(a, b)| b - a).map(|val| val * len)
Intervals(ratios, len) ==
    [k \in 1..(Len(ratios) - 1) |-> FracTimes(FracSub(ratios[k + 1], ratios[k]), len)]

\* The walks measure in units of 1 / scale of a length unit, scale being a common
\* multiple of the denominators of the intervals: an interval n / d is these many
\* units.
InUnits(intervals, scale) ==
    [k \in 1..Len(intervals) |-> (intervals[k][1] * scale) \div intervals[k][2]]

\* A PathWalker at its construction with start = 0.0: the first stop is due at
\* distance 0.
PathWalker_new ==
    [leftover |-> 0, next_distance |-> 0, advancement |-> 0, index |-> 0,
     stops |-> <<>>, panicked |-> FALSE]

\* The while loop of PathWalker::line_to: as long as the distance walked since the
\* last stop reaches next_distance the walker stops, calls the pattern, whose
\* callback records the stop, and takes the next interval, intervals[index % len],
\* as the distance to the next stop; with no interval the remainder panics.
RECURSIVE WalkStops(_, _, _)
WalkStops(w, intervals, distance) ==
    IF w.panicked \/ distance < w.next_distance THEN [w EXCEPT !.leftover = distance]
    ELSE LET stopped == [w EXCEPT !.leftover = 0,
                                  !.advancement = @ + w.next_distance,
                                  !.stops = Append(@, w.advancement + w.next_distance)]
         IN  IF intervals = <<>> THEN [stopped EXCEPT !.panicked = TRUE]
             ELSE WalkStops([stopped EXCEPT
                                !.next_distance = intervals[(w.index % Len(intervals)) + 1],
                                !.index = @ + 1],
                            intervals, distance - w.next_distance)

\* PathWalker::line_to over an edge of length d: an edge of no length is skipped.
Walker_line_to(w, intervals, d) ==
    IF d = 0 THEN w ELSE WalkStops(w, intervals, w.leftover + d)

\* walk_along_path(events, 0.0, pattern): Begin moves the walker, Line walks the
\* line, End { close: true } walks the closing edge back to the first point.
RECURSIVE WalkLoop(_, _, _, _)
WalkLoop(events, w, intervals, scale) ==
    IF events = <<>> \/ w.panicked THEN w
    ELSE LET e == Head(events)
         IN  IF e.ev = "Line" \/ (e.ev = "End" /\ e.close)
             THEN WalkLoop(Tail(events),
                           Walker_line_to(w, intervals, Dist(e.from, e.to) * scale),
                           intervals, scale)
             ELSE WalkLoop(Tail(events), w, intervals, scale)

walk_along_path(path, intervals, scale) ==
    WalkLoop(Flattened(path), PathWalker_new, InUnits(intervals, scale), scale)

\* The resampling branch: the merged ratios, the two lists of arc-length intervals,
\* and the stops of the two walks (p1, p2) as the distances walked to them, in units
\* of 1 / (len_1 * len_2)^2; panicked if a walk panicked.
Resample(self, other) ==
    LET path1_lengths == get_line_lengths(self)
        path2_lengths == get_line_lengths(other)
        len_1 == path1_lengths[Len(path1_lengths)]
        len_2 == path2_lengths[Len(path2_lengths)]
        ratios == combine_vectors_with_ordering(path1_lengths, path2_lengths)
        lengths_1 == Intervals(ratios, len_1)
        lengths_2 == Intervals(ratios, len_2)
        scale == (len_1 * len_2) * (len_1 * len_2)
        walk_1 == walk_along_path(self, lengths_1, scale)
        walk_2 == walk_along_path(other, lengths_2, scale)
    IN  [branch |-> "resample", path |-> <<>>, ratios |-> ratios,
         lengths_1 |-> lengths_1, lengths_2 |-> lengths_2,
         len_1 |-> len_1, len_2 |-> len_2,
         p1 |-> walk_1.stops,
         p2 |-> IF walk_1.panicked THEN <<>> ELSE walk_2.stops,
         panicked |-> walk_1.panicked \/ walk_2.panicked]

Clone(branch, path) ==
    [branch |-> branch, path |-> path, ratios |-> <<>>,
     lengths_1 |-> <<>>, lengths_2 |-> <<>>, len_1 |-> 0, len_2 |-> 0,
     p1 |-> <<>>, p2 |-> <<>>, panicked |-> FALSE]

interp_strict_thresholds(self, other, progress) ==
    LET p == Clamped(progress)
    IN  IF p < LowThreshold THEN Clone("self", self)
        ELSE IF p > HighThreshold THEN Clone("other", other)
        ELSE Resample(self, other)

\* self.interp(other, progress)
interp(self, other, progress) ==
    LET p == Clamped(progress)
    IN  IF p <= LowThreshold THEN Clone("self", self)
        ELSE IF p >= HighThreshold THEN Clone("other", other)
        ELSE Resample(self, other)

InterpPaths == {<<sub>> : sub \in UNION {SubPathsOf(k) : k \in 1..MaxInterpSegs}}
ProgressValues ==
    {NaN} \cup {Progress(v) : v \in {-5, 0, 5, 10, 11, 5000, 9989, 9990, 9995, 10000, 10005}}

InterpInit ==
    /\ SceneInit
    /\ done = {}
    /\ \E self \in InterpPaths, other \in InterpPaths :
           call = [fn |-> "interp", state |-> "called", self |-> self, other |-> other,
                   progress |-> Progress(0), out |-> Clone("none", <<>>)]

InterpReturn ==
    /\ call.fn = "interp"
    /\ call.state = "called"
    /\ \E progress \in ProgressValues :
           call' = [call EXCEPT !.state = "returned", !.progress = progress,
                                !.out = interp(call.self, call.other, progress)]
    /\ UNCHANGED <<sceneVars, done>>

NextInterp == InterpReturn

SpecInterp == InterpInit /\ [][NextInterp]_vars

\* Calls of interp that resample: two paths of one sub-path each, begun at the
\* origin, with a progress just above the lower and just below the upper threshold.
ResamplePaths == {<<sub>> : sub \in UNION {SubPathsFrom(<<0, 0>>, k) : k \in 1..MaxWalkSegs}}
ResampleProgress == {Progress(LowThreshold + 1), Progress(HighThreshold - 1)}

ResampleInit ==
    /\ SceneInit
    /\ done = {}
    /\ \E self \in ResamplePaths, other \in ResamplePaths :
           call = [fn |-> "resample", state |-> "called", self |-> self, other |-> other,
                   progress |-> Progress(0), out |-> Clone("none", <<>>)]

ResampleReturn ==
    /\ call.fn = "resample"
    /\ call.state = "called"
    /\ \E progress \in ResampleProgress :
           call' = [call EXCEPT !.state = "returned", !.progress = progress,
                                !.out = interp(call.self, call.other, progress)]
    /\ UNCHANGED <<sceneVars, done>>

NextResample == ResampleReturn

SpecResample == ResampleInit /\ [][NextResample]_vars

(***************************************************************************)
(* The update stage: claims C1 to C3, checked under SpecFrame.             *)
(***************************************************************************)
DerivedPathSystems ==
    {"init_from_target<Path>", "animate<Path>", "update_path_from_size_change"}
PathDependencySystems ==
    {"init_from_target<Size>", "animate<Size>",
     "init_from_target<PathCompletion>", "animate<PathCompletion>"}

\* C1: in every execution order of a frame, a derived path system
\* (init_from_target<Path>, animate<Path>, update_path_from_size_change) has run only
\* if animate<Size>, animate<PathCompletion> and their init_from_target systems have
\* all finished in that frame.
C1_PathSystemsRunAfterDependencies ==
    \A p \in DerivedPathSystems : p \in done => PathDependencySystems \subseteq done

\* C2: in every execution order of a frame, init_from_target<Size> or animate<Size>
\* has run only if update_previous<Size> has finished in that frame.
C2_SnapshotBeforeSizeMutation ==
    \A s \in {"init_from_target<Size>", "animate<Size>"} :
        s \in done => "update_previous<Size>" \in done

\* Both Size systems have run in this frame and the path systems have not yet.
C2_Witness ==
    /\ {"update_previous<Size>", "init_from_target<Size>", "animate<Size>"} \subseteq done
    /\ DerivedPathSystems \cap done = {}

AttributeKinds ==
    {"Position", "FillColor", "StrokeColor", "StrokeWeight", "Size", "Angle",
     "Opacity", "PathCompletion", "FontSize", "Path"}
InitSystem(T) == "init_from_target<" \o T \o ">"
AnimateSystem(T) == IF T = "Position" THEN "animate_position" ELSE "animate<" \o T \o ">"

\* C3: for every attribute kind T of the update stage, in every execution order of a
\* frame the animation-apply system of T has run only if init_from_target<T> has
\* run before it.
C3_InitBeforeAnimate ==
    \A T \in AttributeKinds : AnimateSystem(T) \in done => InitSystem(T) \in done

(***************************************************************************)
(* combine_vectors_with_ordering: claims C4 and C5, checked under          *)
(* SpecCombine.                                                            *)
(***************************************************************************)
CombineReturned ==
    call.fn = "combine_vectors_with_ordering" /\ call.state = "returned"
IsStrictlyIncreasing(v) == \A i \in 2..Len(v) : v[i - 1] < v[i]
NormalizedVector(v) == [i \in 1..Len(v) |-> Normalized(v[i], v[Len(v)])]
\* The number of entries of the sequence of fractions q equal to the fraction x.
Occurrences(q, x) == Cardinality({i \in 1..Len(q) : FracEq(q[i], x)})
\* The entries of the sequence of fractions q that are less than 1.
BelowOne(q) == SelectSeq(q, LAMBDA x : FracLess(x, <<1, 1>>))

\* C4: for non-empty increasing vectors v1 and v2 with positive last entries, every
\* entry of combine_vectors_with_ordering(v1, v2) is at least the entry before it.
C4_CombinedIsNonDecreasing ==
    CombineReturned =>
        \A i \in 2..Len(call.out) : ~FracLess(call.out[i], call.out[i - 1])

\* Two strictly increasing vectors with different totals were merged, and entries of
\* v2 were placed before, between and after entries of v1.
C4_Witness ==
    /\ CombineReturned
    /\ IsStrictlyIncreasing(call.v1) /\ IsStrictlyIncreasing(call.v2)
    /\ call.v1[Len(call.v1)] # call.v2[Len(call.v2)]
    /\ Len(call.out) >= 5
    /\ \E i \in 1..Len(call.out) - 2 :
          /\ call.out[i][2] = call.v1[Len(call.v1)]
          /\ call.out[i + 1][2] = call.v2[Len(call.v2)]
          /\ FracLess(call.out[i], call.out[i + 1])
          /\ FracLess(call.out[i + 1], call.out[i + 2])

\* C5 as stated: the output keeps every entry of both normalized vectors, duplicates
\* from both sources included: each value occurs in it as often as in v1 and v2
\* together.
C5_KeepsAllEntriesOfBoth ==
    CombineReturned =>
        LET n1 == NormalizedVector(call.v1)
            n2 == NormalizedVector(call.v2)
        IN  \A x \in {n1[i] : i \in 1..Len(n1)} \cup {n2[j] : j \in 1..Len(n2)} :
                Occurrences(call.out, x) = Occurrences(n1, x) + Occurrences(n2, x)

\* C5 amended: the output keeps every entry of normalized v1 and those entries of
\* normalized v2 that are less than 1; the entries of v2 equal to its total (the last
\* one at least) are dropped.  So every normalized value of either vector still
\* occurs in it, and it has len(v1) + #{j : v2[j] < last(v2)} entries.
C5_KeepsV1AndV2BelowOne ==
    CombineReturned =>
        LET n1 == NormalizedVector(call.v1)
            n2 == NormalizedVector(call.v2)
        IN  /\ \A x \in {n1[i] : i \in 1..Len(n1)} \cup {n2[j] : j \in 1..Len(n2)} :
                /\ Occurrences(call.out, x)
                      = Occurrences(n1, x) + Occurrences(BelowOne(n2), x)
                /\ Occurrences(call.out, x) >= 1
            /\ \A i \in 1..Len(call.out) :
                   \E x \in {n1[k] : k \in 1..Len(n1)} \cup {n2[j] : j \in 1..Len(n2)} :
                       FracEq(call.out[i], x)
            /\ Len(call.out) = Len(call.v1) + Len(BelowOne(n2))
            /\ Len(call.out) < Len(call.v1) + Len(call.v2)

\* v2 is strictly increasing and shares no normalized value with v1 but the final 1:
\* the output has len(v1) + len(v2) - 1 entries.
C5_Witness ==
    /\ CombineReturned
    /\ IsStrictlyIncreasing(call.v1) /\ IsStrictlyIncreasing(call.v2)
    /\ Len(call.v1) >= 2 /\ Len(call.v2) >= 2
    /\ \A i \in 1..(Len(call.v1) - 1), j \in 1..(Len(call.v2) - 1) :
           ~FracEq(NormalizedVector(call.v1)[i], NormalizedVector(call.v2)[j])
    /\ Len(call.out) = Len(call.v1) + Len(call.v2) - 1

(***************************************************************************)
(* Path::interp: claim C6, checked under SpecInterp.                       *)
(***************************************************************************)
InterpReturned == call.fn = "interp" /\ call.state = "returned"

\* C6: interp(A, B, p) returns A itself when p, clamped to [0, 1], is at most 0.001,
\* and B itself when it is at least 0.999; it resamples exactly when
\* 0.001 < p < 0.999.  (A progress that is not a number clamps to 1.)
C6_CloneAtTheBoundaries ==
    InterpReturned =>
        LET p == call.progress
            low == ~p.nan /\ p.v <= 10
            high == p.nan \/ p.v >= 9990
        IN  /\ low => call.out.branch = "self" /\ call.out.path = call.self
            /\ high => call.out.branch = "other" /\ call.out.path = call.other
            /\ call.out.branch = "resample" <=> (~low /\ ~high)

\* interp was called with progress exactly 0.001 on two different paths and returned
\* the first.
C6_Witness ==
    /\ InterpReturned
    /\ call.progress = Progress(10)
    /\ call.self # call.other
    /\ call.out.branch = "self"
    /\ call.out.path = call.self

(***************************************************************************)
(* GetPartial::upto: claims C7 and C8, checked under SpecUpto.             *)
(***************************************************************************)
UptoReturned == call.fn = "upto" /\ call.state = "returned"

\* C7: for every path of positive length and every ratio r strictly between 0 and
\* 1, the length of upto(path, r) is r times the length of the path.
C7_PartialLengthIsRatioOfLength ==
    (/\ UptoReturned
     /\ call.ratio > 0 /\ call.ratio < RatioDen
     /\ approximate_length(call.path) > 0)
        => RatioDen * approximate_length(call.out)
              = call.ratio * approximate_length(call.path)

\* C8: for every path and every ratio >= 1, upto returns the path it was given: the
\* same sub-paths with the same segments, curves not flattened, ends not changed.
C8_RatioAtLeastOneReturnsPath ==
    (UptoReturned /\ call.ratio >= RatioDen) => call.out = call.path

\* upto was called with ratio exactly 1 on a path with a curve and an open end, and
\* returned it.
C8_Witness ==
    /\ UptoReturned
    /\ call.ratio = RatioDen
    /\ \E i \in 1..Len(call.path) :
          /\ ~call.path[i].close
          /\ \E k \in 1..Len(call.path[i].segs) : call.path[i].segs[k].kind = "Quadratic"
    /\ call.out = call.path

(***************************************************************************)
(* The scene: claims C9 and C10, checked under Spec.                       *)
(***************************************************************************)
\* C9: the n-th call of increment_counter returns the depth n/10, strictly greater
\* than the depth of every earlier call, whatever operations come between; and only
\* increment_counter changes creation_count, by adding one.
C9_DepthsStrictlyIncrease ==
    /\ [](/\ Len(depths) = creation_count
          /\ \A n \in 1..Len(depths) :
                /\ FracEq(depths[n], <<n, 10>>)
                /\ \A m \in 1..(n - 1) : FracLess(depths[m], depths[n]))
    /\ [][creation_count' # creation_count =>
            /\ last_op'.op = "increment_counter"
            /\ creation_count' = creation_count + 1]_vars

\* Depths were handed out before and after update, wait and play calls.
C9_Witness ==
    /\ Len(depths) = MaxCount
    /\ last_op.op = "play"
    /\ clock_time > 0
    /\ event_time > 1

\* C10: update(now) sets clock_time to now, also when now is below the current
\* clock_time, and leaves event_time; wait adds one second and wait_for(t) adds t to
\* event_time and both leave clock_time; no other operation changes either field.
C10_ClockMutatedOnlyByUpdateAndWait ==
    [][/\ last_op'.op = "update" =>
            clock_time' = last_op'.arg /\ event_time' = event_time
       /\ last_op'.op = "wait" =>
            event_time' = event_time + 2 /\ clock_time' = clock_time
       /\ last_op'.op = "wait_for" =>
            event_time' = event_time + last_op'.arg /\ clock_time' = clock_time
       /\ last_op'.op \in {"draw", "increment_counter"} =>
            event_time' = event_time /\ clock_time' = clock_time
       /\ (event_time' # event_time \/ clock_time' # clock_time) =>
            last_op'.op \in {"update", "wait", "wait_for"}]_vars

\* update was called with a time below the clock and the clock went back to it.
C10_Witness ==
    /\ last_op.op = "update"
    /\ last_op.arg < last_op.clock_before
    /\ clock_time = last_op.arg
    /\ event_time > 1

(***************************************************************************)
(* The draw pass: claim C11, checked under SpecDraw.                       *)
(***************************************************************************)
\* C11: in every draw pass the entities are drawn in the order of their creation
\* (increasing depth), whatever their kinds: an entity created before another is
\* drawn before it.
C11_DrawnInCreationOrder ==
    last_op.op = "draw" =>
        \A i \in 1..Len(drawn), j \in 1..Len(drawn) :
            FracLess(entities[drawn[i]].depth, entities[drawn[j]].depth) => i < j

(***************************************************************************)
(* The ends of the sub-paths in upto: claim C12, checked under SpecUpto.   *)
(***************************************************************************)
\* stop_at of the call that returned
StopAt ==
    ((IF call.ratio > 0 THEN call.ratio ELSE 0) * approximate_length(call.path)) \div RatioDen

\* The sub-paths of the input whose end lies at or before the cutoff.
ReachedEnds ==
    {k \in 1..Len(call.path) :
        LET l == get_line_lengths(SubSeq(call.path, 1, k)) IN l[Len(l)] <= StopAt}

\* The segments of the input that end at or before the cutoff.
WholeSegments ==
    {i \in 1..Len(get_line_lengths(call.path)) : get_line_lengths(call.path)[i] <= StopAt}

\* A closed sub-path of the input, ended before the cutoff, is closed in the output.
UptoKeepsCloses ==
    \A k \in ReachedEnds :
        call.path[k].close => (k <= Len(call.out) /\ call.out[k].close)

\* An open sub-path of the input, ended before the cutoff, is open in the output.
UptoKeepsOpenEnds ==
    \A k \in ReachedEnds :
        ~call.path[k].close => (k <= Len(call.out) /\ ~call.out[k].close)

\* The output ends with the partial segment at the cutoff: it has the whole segments
\* before the cutoff and one more, in the sub-paths ended before the cutoff and one
\* more, and that last sub-path is open.
UptoStopsAtCutoff ==
    Cardinality(WholeSegments) < Len(get_line_lengths(call.path)) =>
        /\ Len(get_line_lengths(call.out)) = Cardinality(WholeSegments) + 1
        /\ Len(call.out) = Cardinality(ReachedEnds) + 1
        /\ ~call.out[Len(call.out)].close

\* C12: for ratio < 1, upto carries every sub-path end reached before the cutoff
\* over as it is: a closed sub-path stays closed, an open one stays open, and
\* nothing is emitted after the partial segment at the cutoff.
C12_SubPathEndsCarriedVerbatim ==
    (UptoReturned /\ call.ratio < RatioDen) =>
        (UptoKeepsCloses /\ UptoKeepsOpenEnds /\ UptoStopsAtCutoff)

(***************************************************************************)
(* The resampling branch of interp: claim C13, checked under SpecResample. *)
(***************************************************************************)
ResampleReturned ==
    /\ call.fn = "resample"
    /\ call.state = "returned"
    /\ call.out.branch = "resample"

\* The two interval lists have the same number of entries, the k-th entries are
\* (ratio[k+1] - ratio[k]) * len_A and (ratio[k+1] - ratio[k]) * len_B, and none is
\* negative.
IntervalsFollowTheRatios ==
    LET out == call.out
    IN  /\ Len(out.lengths_1) = Len(out.lengths_2)
        /\ Len(out.lengths_1) = Len(out.ratios) - 1
        /\ \A k \in 1..Len(out.lengths_1) :
              LET step == FracSub(out.ratios[k + 1], out.ratios[k])
              IN  /\ FracEq(out.lengths_1[k], <<step[1] * out.len_1, step[2]>>)
                  /\ FracEq(out.lengths_2[k], <<step[1] * out.len_2, step[2]>>)
                  /\ ~FracLess(out.lengths_1[k], <<0, 1>>)
                  /\ ~FracLess(out.lengths_2[k], <<0, 1>>)

\* The two walks end, with the same number of stops.
WalksMakeTheSameStops ==
    /\ ~call.out.panicked
    /\ Len(call.out.p1) = Len(call.out.p2)

\* C13: in the resampling branch of interp, with both paths of positive length, the
\* two interval lists have the same number of entries, their k-th entries are the
\* k-th step of the merged ratios times the length of path A and of path B, none
\* negative, and the two walks make the same number of stops, so that the two point
\* sequences are equally long.
C13_WalksYieldEquallyManyPoints ==
    (ResampleReturned /\ call.out.len_1 > 0 /\ call.out.len_2 > 0) =>
        (IntervalsFollowTheRatios /\ WalksMakeTheSameStops)

====
